---- MODULE Spec2Model ----
(***************************************************************************)
(* A model of src/messy-project/src/utils/data_processor.py:               *)
(*   process_user_data, calculate_metrics and the class DataAnalyzer.      *)
(* Python values are tagged records, mappings (dict objects) live in a     *)
(* heap of objects addressed by reference, and a call ends either by       *)
(* returning a value or by raising an exception.                           *)
(***************************************************************************)
EXTENDS Integers, Sequences, FiniteSets

VARIABLES
    heap,        \* dict objects: reference -> [live, items]
    callerRefs,  \* references to the dicts the calling code created itself
    insts,       \* the DataAnalyzer instances constructed so far
    call,        \* the last call made
    ret,         \* the outcome of the last call
    threads,     \* the calls in progress: thread -> [pc, call, result]
    locals       \* frame -> the local values of the call running in it

vars == <<heap, callerRefs, insts, call, ret, threads, locals>>

----------------------------------------------------------------------------
(* Bounds of the model *)

MaxLen == 2
MaxObj == 3
MaxInst == 2
NumThreads == 2

----------------------------------------------------------------------------
(* Python values *)

PyStr(s) == [tag |-> "str", str |-> s, num |-> 0]
PyInt(n) == [tag |-> "int", str |-> <<>>, num |-> n]
PyNone == [tag |-> "none", str |-> <<>>, num |-> 0]

Return(v) == [kind |-> "return", value |-> v]
\* an exception instance, named by its class
PyExc(e) == [tag |-> e, str |-> <<>>, num |-> 0]
Raise(e) == [kind |-> "raise", value |-> PyExc(e)]

SeqsUpTo(S, n) == UNION {[1..k -> S] : k \in 0..n}

Chars == {"A", "a", "B", "1"}
Upper == {"A", "B"}
Strings == SeqsUpTo(Chars, MaxLen)
Numbers == -1..2
Ids == {PyStr(<<"a", "1">>), PyInt(7), PyNone}
NameValues == {PyStr(s) : s \in Strings} \cup {PyInt(3), PyNone}
OtherValues == {PyInt(3), PyStr(<<"B">>)}
RecordKeys == {"name", "age"}

\* a record: a mapping of string keys to arbitrary values
Records ==
    { [k \in {} |-> PyNone] }
    \cup { [k \in {"name"} |-> v] : v \in NameValues }
    \cup { [k \in {"age"} |-> w] : w \in OtherValues }
    \cup { [k \in RecordKeys |-> IF k = "name" THEN v ELSE w] :
             v \in NameValues, w \in OtherValues }

Datasets == SeqsUpTo(Numbers, MaxLen + 1)

----------------------------------------------------------------------------
(* Builtins used by the module *)

\* dict.get(key, default)
dict_get(d, key, default) == IF key \in DOMAIN d THEN d[key] ELSE default

LowerChar(c) ==
    CASE c = "A" -> "a"
      [] c = "B" -> "b"
      [] OTHER -> c

\* str.lower(): a new string, each cased character replaced by its lower case
RECURSIVE str_lower(_)
str_lower(s) ==
    IF s = <<>> THEN <<>>
    ELSE <<LowerChar(Head(s))>> \o str_lower(Tail(s))

\* attribute lookup of .lower followed by the call: only str has the method
lower(v) ==
    IF v.tag = "str" THEN Return(PyStr(str_lower(v.str)))
    ELSE Raise("AttributeError")

\* sum(iterable): left to right from 0
RECURSIVE sum(_)
sum(d) == IF d = <<>> THEN 0 ELSE Head(d) + sum(Tail(d))

len(c) == Len(c)

\* truth value of a sequence: non-empty
truthy(c) == len(c) # 0

Abs(n) == IF n < 0 THEN -n ELSE n

RECURSIVE Gcd(_, _)
Gcd(a, b) == IF b = 0 THEN a ELSE Gcd(b, a % b)

\* exact quotient a / b as a fraction in lowest terms, b > 0
Rat(a, b) ==
    LET g == Gcd(Abs(a), b)
    IN  [num |-> a \div g, den |-> b \div g]

\* the literal 0
Zero == [num |-> 0, den |-> 1]

\* a / b: true division
truediv(a, b) ==
    IF b = 0 THEN Raise("ZeroDivisionError") ELSE Return(Rat(a, b))

----------------------------------------------------------------------------
(* process_user_data *)

process_user_data_guarded(user_id, data) ==
    LET v == dict_get(data, "name", PyStr(<<>>))
    IN  Return([id |-> user_id,
                normalized |-> IF v.tag = "str" THEN PyStr(str_lower(v.str))
                               ELSE PyStr(<<>>)])

process_user_data_nolower(user_id, data) ==
    Return([id |-> user_id, normalized |-> dict_get(data, "name", PyStr(<<>>))])

process_user_data(user_id, data) ==
    LET lowered == lower(dict_get(data, "name", PyStr(<<>>)))
    IN  IF lowered.kind = "raise" THEN lowered
        ELSE Return([id |-> user_id, normalized |-> lowered.value])

----------------------------------------------------------------------------
(* calculate_metrics *)

calculate_metrics_unguarded(dataset) ==
    LET total == sum(dataset)
        avg == truediv(total, len(dataset))
    IN  IF avg.kind = "raise" THEN avg
        ELSE Return([total |-> total, average |-> avg.value])

calculate_metrics_floordiv(dataset) ==
    LET total == sum(dataset)
    IN  Return([total |-> total,
                average |-> IF truthy(dataset)
                            THEN Rat(total \div len(dataset), 1) ELSE Zero])

calculate_metrics(dataset) ==
    LET total == sum(dataset)
        avg == IF truthy(dataset) THEN truediv(total, len(dataset))
               ELSE Return(Zero)
    IN  IF avg.kind = "raise" THEN avg
        ELSE Return([total |-> total, average |-> avg.value])

----------------------------------------------------------------------------
(* Dict objects and references *)

NoneRef == 0
Refs == 1..MaxObj

ConfigKeys == {"threshold"}
ConfigVals == {5, 6}
EmptyMap == [k \in {} |-> 0]
Mappings == UNION {[D -> ConfigVals] : D \in SUBSET ConfigKeys}

Unallocated == [live |-> FALSE, items |-> EmptyMap]
Live(h) == {o \in Refs : h[o].live}

\* a constructor argument: None or a reference to a dict
arg_truthy(h, config) == config # NoneRef /\ h[config].items # EmptyMap

\* the dict display {}: a new object each time it is evaluated
NewRef(h) == CHOOSE o \in Refs \ Live(h) : \A p \in Refs \ Live(h) : o <= p
new_dict(h, items) == [h EXCEPT ![NewRef(h)] = [live |-> TRUE, items |-> items]]

\* d[k] = v
dict_setitem(h, d, k, v) ==
    [h EXCEPT ![d].items = [x \in DOMAIN @ \cup {k} |-> IF x = k THEN v ELSE @[x]]]

----------------------------------------------------------------------------
(* DataAnalyzer *)

DataAnalyzer_init_noor(h, config) ==
    [heap |-> h, self |-> [config |-> config]]

DataAnalyzer_init_shared(h, config) ==
    IF arg_truthy(h, config) THEN [heap |-> h, self |-> [config |-> config]]
    ELSE [heap |-> [h EXCEPT ![MaxObj] = [live |-> TRUE, items |-> @.items]],
          self |-> [config |-> MaxObj]]

DataAnalyzer_init_copy(h, config) ==
    [heap |-> new_dict(h, IF config = NoneRef THEN EmptyMap ELSE h[config].items),
     self |-> [config |-> NewRef(h)]]

\* __init__: self.config = config or {}
DataAnalyzer_init(h, config) ==
    IF arg_truthy(h, config) THEN [heap |-> h, self |-> [config |-> config]]
    ELSE [heap |-> new_dict(h, EmptyMap), self |-> [config |-> NewRef(h)]]

analyze_counts_config(h, self, data) ==
    [heap |-> h,
     ret |-> Return([analyzed |-> TRUE,
                     data_count |-> len(data) + Cardinality(DOMAIN h[self.config].items)])]

analyze_caches(h, self, data) ==
    [heap |-> dict_setitem(h, self.config, "threshold", len(data) + 5),
     ret |-> Return([analyzed |-> TRUE, data_count |-> len(data)])]

analyze(h, self, data) ==
    [heap |-> h,
     ret |-> Return([analyzed |-> TRUE, data_count |-> len(data)])]

_internal_helper(h, self, x) == [heap |-> h, ret |-> Return(x * 2)]

----------------------------------------------------------------------------
(* The calling code: what it may do with the module *)

NoCall == [fn |-> "none"]
Collections == {<<>>, <<PyInt(3)>>, <<PyStr(<<"B">>), PyNone>>}
HelperArgs == {-1, 2}
NoLocals ==
    [value |-> PyNone, lowered |-> Return(PyNone), total |-> 0,
     avg |-> Return(Zero), n |-> 0]

IdleThread == [pc |-> "idle", call |-> NoCall, result |-> Return(PyNone)]

Init ==
    /\ heap = [o \in Refs |-> Unallocated]
    /\ callerRefs = {}
    /\ insts = <<>>
    /\ call = NoCall
    /\ ret = Return(PyNone)
    /\ threads = [t \in 1..NumThreads |-> IdleThread]
    /\ locals = [f \in 1..NumThreads |-> NoLocals]

CallProcessUserData(i, r) ==
    /\ call' = [fn |-> "process_user_data", user_id |-> i, data |-> r]
    /\ ret' = process_user_data(i, r)
    /\ UNCHANGED <<heap, callerRefs, insts, threads, locals>>

CallCalculateMetrics(d) ==
    /\ call' = [fn |-> "calculate_metrics", dataset |-> d]
    /\ ret' = calculate_metrics(d)
    /\ UNCHANGED <<heap, callerRefs, insts, threads, locals>>

NextPure ==
    \/ \E i \in Ids, r \in Records : CallProcessUserData(i, r)
    \/ \E d \in Datasets : CallCalculateMetrics(d)

SpecPure == Init /\ [][NextPure]_vars

\* the caller builds a dict of its own
CallerNewDict(m) ==
    /\ Live(heap) # Refs
    /\ heap' = new_dict(heap, m)
    /\ callerRefs' = callerRefs \cup {NewRef(heap)}
    /\ call' = [fn |-> "dict"]
    /\ ret' = Return(PyNone)
    /\ UNCHANGED <<insts, threads, locals>>

\* the caller changes a dict it holds
CallerMutate(d, k, v) ==
    /\ d \in callerRefs
    /\ heap' = dict_setitem(heap, d, k, v)
    /\ call' = [fn |-> "setitem"]
    /\ ret' = Return(PyNone)
    /\ UNCHANGED <<callerRefs, insts, threads, locals>>

ArgKind(h, config) ==
    IF config = NoneRef THEN "none"
    ELSE IF h[config].items = EmptyMap THEN "empty" ELSE "nonempty"

\* DataAnalyzer(config), config being None, a dict of the caller's or the
\* config of an instance; arg and how record what was passed
Construct(config) ==
    /\ Len(insts) < MaxInst
    /\ config = NoneRef \/ config \in Live(heap)
    /\ arg_truthy(heap, config) \/ Live(heap) # Refs
    /\ LET made == DataAnalyzer_init(heap, config)
       IN  /\ heap' = made.heap
           /\ insts' = Append(insts, [config |-> made.self.config,
                                      arg |-> config,
                                      how |-> ArgKind(heap, config)])
    /\ call' = [fn |-> "__init__"]
    /\ ret' = Return(PyNone)
    /\ UNCHANGED <<callerRefs, threads, locals>>

\* inst.config[k] = v, done by code holding the instance
InstanceConfigSet(i, k, v) ==
    /\ i \in 1..Len(insts)
    /\ insts[i].config # NoneRef
    /\ heap' = dict_setitem(heap, insts[i].config, k, v)
    /\ call' = [fn |-> "config_setitem"]
    /\ ret' = Return(PyNone)
    /\ UNCHANGED <<callerRefs, insts, threads, locals>>

Analyze(i, c) ==
    /\ i \in 1..Len(insts)
    /\ LET done == analyze(heap, insts[i], c)
       IN  /\ heap' = done.heap
           /\ ret' = done.ret
    /\ call' = [fn |-> "analyze", self |-> i, data |-> c]
    /\ UNCHANGED <<callerRefs, insts, threads, locals>>

InternalHelper(i, x) ==
    /\ i \in 1..Len(insts)
    /\ LET done == _internal_helper(heap, insts[i], x)
       IN  /\ heap' = done.heap
           /\ ret' = done.ret
    /\ call' = [fn |-> "_internal_helper", self |-> i, x |-> x]
    /\ UNCHANGED <<callerRefs, insts, threads, locals>>

NextAnalyzer ==
    \/ \E m \in Mappings : CallerNewDict(m)
    \/ \E d \in Refs, k \in ConfigKeys, v \in ConfigVals : CallerMutate(d, k, v)
    \/ \E config \in {NoneRef} \cup Refs : Construct(config)
    \/ \E i \in 1..MaxInst, k \in ConfigKeys, v \in ConfigVals : InstanceConfigSet(i, k, v)
    \/ \E i \in 1..MaxInst, c \in Collections : Analyze(i, c)
    \/ \E i \in 1..MaxInst, x \in HelperArgs : InternalHelper(i, x)

SpecAnalyzer == Init /\ [][NextAnalyzer]_vars

----------------------------------------------------------------------------
(* Calls running in several threads, interleaved statement by statement.    *)
(* Each call's parameters and intermediate values are locals of its frame.  *)

ThreadIds == {PyInt(7)}
ThreadRecords == {EmptyMap, [name |-> PyStr(<<"A", "1">>)], [name |-> PyInt(3)]}
ThreadDatasets == {<<>>, <<2>>, <<1, 2>>}
ThreadCollections == {<<>>, <<PyInt(3)>>}

ThreadCalls ==
    {[fn |-> "process_user_data", user_id |-> i, data |-> r] :
        i \in ThreadIds, r \in ThreadRecords}
    \cup {[fn |-> "calculate_metrics", dataset |-> d] : d \in ThreadDatasets}
    \cup {[fn |-> "analyze", self |-> i, data |-> c] :
        i \in 1..Len(insts), c \in ThreadCollections}

FirstPc(fn) ==
    CASE fn = "process_user_data" -> "get"
      [] fn = "calculate_metrics" -> "sum"
      [] fn = "analyze" -> "len"

shared_frame(t) == 1

\* the frame holding the locals of the call thread t runs: its own
frame(t) == t

ThreadStart(t, c) ==
    /\ threads[t].pc = "idle"
    /\ threads' = [threads EXCEPT ![t] = [pc |-> FirstPc(c.fn), call |-> c,
                                          result |-> Return(PyNone)]]
    /\ locals' = [locals EXCEPT ![frame(t)] = NoLocals]
    /\ UNCHANGED <<heap, callerRefs, insts, call, ret>>

\* data.get('name', '')
StepGet(t) ==
    /\ threads[t].pc = "get"
    /\ locals' = [locals EXCEPT ![frame(t)].value =
                      dict_get(threads[t].call.data, "name", PyStr(<<>>))]
    /\ threads' = [threads EXCEPT ![t].pc = "lower"]
    /\ UNCHANGED <<heap, callerRefs, insts, call, ret>>

\* .lower()
StepLower(t) ==
    /\ threads[t].pc = "lower"
    /\ LET lowered == lower(locals[frame(t)].value)
       IN  /\ locals' = [locals EXCEPT ![frame(t)].lowered = lowered]
           /\ threads' = [threads EXCEPT ![t] =
                  IF lowered.kind = "raise"
                  THEN [@ EXCEPT !.pc = "done", !.result = lowered]
                  ELSE [@ EXCEPT !.pc = "build"]]
    /\ UNCHANGED <<heap, callerRefs, insts, call, ret>>

\* return {'id': ..., 'normalized': ...}
StepBuild(t) ==
    /\ threads[t].pc = "build"
    /\ threads' = [threads EXCEPT ![t].pc = "done",
                      ![t].result = Return([id |-> threads[t].call.user_id,
                                            normalized |-> locals[frame(t)].lowered.value])]
    /\ UNCHANGED <<heap, callerRefs, insts, call, ret, locals>>

\* total = sum(dataset)
StepSum(t) ==
    /\ threads[t].pc = "sum"
    /\ locals' = [locals EXCEPT ![frame(t)].total = sum(threads[t].call.dataset)]
    /\ threads' = [threads EXCEPT ![t].pc = "avg"]
    /\ UNCHANGED <<heap, callerRefs, insts, call, ret>>

\* avg = total / len(dataset) if dataset else 0
StepAvg(t) ==
    /\ threads[t].pc = "avg"
    /\ LET d == threads[t].call.dataset
           avg == IF truthy(d) THEN truediv(locals[frame(t)].total, len(d))
                  ELSE Return(Zero)
       IN  /\ locals' = [locals EXCEPT ![frame(t)].avg = avg]
           /\ threads' = [threads EXCEPT ![t] =
                  IF avg.kind = "raise"
                  THEN [@ EXCEPT !.pc = "done", !.result = avg]
                  ELSE [@ EXCEPT !.pc = "metrics"]]
    /\ UNCHANGED <<heap, callerRefs, insts, call, ret>>

\* return {'total': total, 'average': avg}
StepMetrics(t) ==
    /\ threads[t].pc = "metrics"
    /\ threads' = [threads EXCEPT ![t].pc = "done",
                      ![t].result = Return([total |-> locals[frame(t)].total,
                                            average |-> locals[frame(t)].avg.value])]
    /\ UNCHANGED <<heap, callerRefs, insts, call, ret, locals>>

\* len(data)
StepLen(t) ==
    /\ threads[t].pc = "len"
    /\ locals' = [locals EXCEPT ![frame(t)].n = len(threads[t].call.data)]
    /\ threads' = [threads EXCEPT ![t].pc = "analysis"]
    /\ UNCHANGED <<heap, callerRefs, insts, call, ret>>

\* return {'analyzed': True, 'data_count': ...}
StepAnalysis(t) ==
    /\ threads[t].pc = "analysis"
    /\ threads' = [threads EXCEPT ![t].pc = "done",
                      ![t].result = Return([analyzed |-> TRUE,
                                            data_count |-> locals[frame(t)].n])]
    /\ UNCHANGED <<heap, callerRefs, insts, call, ret, locals>>

\* the thread takes the outcome, the frame of the call is gone and the
\* thread is free for its next call
ThreadFinish(t) ==
    /\ threads[t].pc = "done"
    /\ threads' = [threads EXCEPT ![t] = IdleThread]
    /\ locals' = [locals EXCEPT ![frame(t)] = NoLocals]
    /\ UNCHANGED <<heap, callerRefs, insts, call, ret>>

NextThreads ==
    \/ \E config \in {NoneRef} \cup Refs : Construct(config)
    \/ \E t \in 1..NumThreads : \E c \in ThreadCalls : ThreadStart(t, c)
    \/ \E t \in 1..NumThreads : StepGet(t)
    \/ \E t \in 1..NumThreads : StepLower(t)
    \/ \E t \in 1..NumThreads : StepBuild(t)
    \/ \E t \in 1..NumThreads : StepSum(t)
    \/ \E t \in 1..NumThreads : StepAvg(t)
    \/ \E t \in 1..NumThreads : StepMetrics(t)
    \/ \E t \in 1..NumThreads : StepLen(t)
    \/ \E t \in 1..NumThreads : StepAnalysis(t)
    \/ \E t \in 1..NumThreads : ThreadFinish(t)

SpecThreads == Init /\ [][NextThreads]_vars

----------------------------------------------------------------------------
(* Properties *)

\* the sum of the elements d[1] .. d[n]
RECURSIVE SumOfFirst(_, _)
SumOfFirst(d, n) == IF n = 0 THEN 0 ELSE SumOfFirst(d, n - 1) + d[n]

\* s with each upper-case character replaced by its lower-case one
Lowercase(s) == [k \in 1..Len(s) |-> LowerChar(s[k])]

HasName(r) == "name" \in DOMAIN r
Defaulted(i) == insts[i].how \in {"none", "empty"}
ConfigItems(h, i) == h[insts[i].config].items

\* C1: calculate_metrics on the empty sequence returns total = 0 and
\* average = 0 and raises nothing: the division is not attempted.
C1_EmptyDatasetGuarded ==
    (call.fn = "calculate_metrics" /\ call.dataset = <<>>) =>
        /\ ret.kind = "return"
        /\ ret.value.total = 0
        /\ ret.value.average = Zero

C1_Witness ==
    call.fn = "calculate_metrics" /\ call.dataset = <<>> /\ ret.kind = "return"

\* C2: for every numeric sequence d the total is the sum of the elements of
\* d, and for every non-empty d the average is exactly sum(d) / len(d):
\* average * len(d) = total.
C2_TotalAndAverage ==
    call.fn = "calculate_metrics" =>
        LET d == call.dataset
        IN  /\ ret.kind = "return"
            /\ ret.value.total = SumOfFirst(d, Len(d))
            /\ Len(d) > 0 =>
                 /\ ret.value.average.den > 0
                 /\ ret.value.average.num * Len(d)
                      = ret.value.total * ret.value.average.den

C2_Witness ==
    /\ call.fn = "calculate_metrics"
    /\ Len(call.dataset) = 2
    /\ ret.kind = "return"
    /\ ret.value.total = 1
    /\ ret.value.average = [num |-> 1, den |-> 2]

C5_AnalyzeCounts ==
    call.fn = "analyze" =>
        /\ ret.kind = "return"
        /\ ret.value = [analyzed |-> TRUE, data_count |-> Len(call.data)]

C5_Witness ==
    /\ call.fn = "analyze"
    /\ Len(call.data) = 2
    /\ ConfigItems(heap, call.self) # EmptyMap
    /\ ret.kind = "return"

\* C6: an analyzer constructed with None and one constructed with an empty
\* mapping both hold an empty mapping once constructed, and in every state
\* analyze gives the same result on both for every collection.
C6_NoneEqualsEmpty ==
    [][/\ Len(insts') = Len(insts) + 1 =>
            LET n == insts'[Len(insts')]
            IN  n.how \in {"none", "empty"} =>
                  /\ n.config # NoneRef
                  /\ heap'[n.config].live
                  /\ heap'[n.config].items = EmptyMap
       /\ \A i, j \in 1..Len(insts') :
            (insts'[i].how = "none" /\ insts'[j].how = "empty") =>
                \A c \in Collections :
                    analyze(heap', insts'[i], c).ret = analyze(heap', insts'[j], c).ret
      ]_vars

C6_Witness ==
    /\ call.fn = "analyze"
    /\ \E i, j \in 1..Len(insts) :
          insts[i].how = "none" /\ insts[j].how = "empty"

\* C7 as stated: in every state no instance's config is a mapping the caller
\* holds or another instance holds.
C7_ConfigNeverShared ==
    \A i \in 1..Len(insts) :
        /\ insts[i].config \notin callerRefs
        /\ \A j \in 1..Len(insts) : j # i => insts[j].config # insts[i].config

\* C7 as amended: the constructor stores a new empty mapping, held by nobody
\* else, when it is given None or an empty mapping; given a non-empty mapping
\* it stores that very mapping and creates none, so the instance shares it
\* with whoever supplied it.
C7_OwnsOnlyWhenDefaulted ==
    [][Len(insts') = Len(insts) + 1 =>
          LET n == insts'[Len(insts')]
          IN  IF n.how = "nonempty"
              THEN /\ n.config = n.arg
                   /\ heap' = heap
              ELSE /\ n.config \notin Live(heap)
                   /\ n.config \in Live(heap')
                   /\ heap'[n.config].items = EmptyMap
                   /\ n.config \notin callerRefs'
                   /\ n.config # n.arg
                   /\ \A i \in 1..Len(insts) : insts[i].config # n.config
      ]_vars

C7_Witness ==
    \E i \in 1..Len(insts) :
        /\ insts[i].how = "nonempty"
        /\ insts[i].config \in callerRefs
        /\ call.fn = "setitem"
        /\ ConfigItems(heap, i) = [k \in ConfigKeys |-> 6]

\* C8: a call of analyze or _internal_helper leaves every instance's config
\* as it was: the same mapping object with the same keys and values.
C8_ConfigUntouched ==
    [][call'.fn \in {"analyze", "_internal_helper"} =>
          /\ insts' = insts
          /\ \A i \in 1..Len(insts) : ConfigItems(heap', i) = ConfigItems(heap, i)
      ]_vars

C8_Witness ==
    /\ call.fn = "_internal_helper"
    /\ ConfigItems(heap, call.self) # EmptyMap

\* the outcome of call c when nothing else runs
RunAlone(c) ==
    CASE c.fn = "process_user_data" -> process_user_data(c.user_id, c.data)
      [] c.fn = "calculate_metrics" -> calculate_metrics(c.dataset)
      [] c.fn = "analyze" -> analyze(heap, insts[c.self], c.data).ret

\* C9: whatever the interleaving of the calls of several threads, on one or
\* several instances, each call ends with the outcome the same call has when
\* it runs alone on the same input.
C9_SameAsAlone ==
    \A t \in 1..NumThreads :
        threads[t].pc = "done" => threads[t].result = RunAlone(threads[t].call)

C9_Witness ==
    \E t, u \in 1..NumThreads :
        /\ threads[t].pc = "done"
        /\ threads[t].call.fn = "calculate_metrics"
        /\ threads[t].call.dataset # <<>>
        /\ threads[u].pc = "build"

\* C10: two instances constructed with None or an empty mapping never hold
\* the same mapping, and a step that changes the config of one leaves the
\* config of the other as it was.
C10_FreshDefaultPerInstance ==
    [][\A i, j \in 1..Len(insts) :
          (i # j /\ Defaulted(i) /\ Defaulted(j)) =>
              /\ insts[i].config # insts[j].config
              /\ ConfigItems(heap', i) # ConfigItems(heap, i) =>
                    ConfigItems(heap', j) = ConfigItems(heap, j)
      ]_vars

C10_Witness ==
    \E i, j \in 1..Len(insts) :
        /\ i # j /\ Defaulted(i) /\ Defaulted(j)
        /\ call.fn = "config_setitem"
        /\ ConfigItems(heap, i) # EmptyMap
        /\ ConfigItems(heap, j) = EmptyMap

====
